---- MODULE Spec2Model ----
(***************************************************************************)
(* A model of adk2plot: one invocation of generate_report_data             *)
(* (adk_agent.py), the plotting tool generate_plot_base64 it dispatches    *)
(* to, and the Flask route dashboard (flask_app.py) that consumes the      *)
(* Report.                                                                 *)
(*                                                                         *)
(* External collaborators are inputs of the model:                         *)
(*  - the data store: the query may select any prefix of the rows that     *)
(*    populate_mock_data inserted (the empty selection included);          *)
(*  - the generative model: send_message either raises or returns a        *)
(*    response with zero or one candidate, whose parts are text parts or   *)
(*    function calls with arbitrary name and arguments.                    *)
(* A coordinate of a point in the model's arguments is either absent, a    *)
(* JSON number ("num") or a JSON string ("str"): the tool's control flow   *)
(* depends on nothing else.                                                *)
(***************************************************************************)
EXTENDS Integers, Sequences, FiniteSets, TLC

(* Bounds of the model *)
MaxPoints == 2      \* longest "data" list in the arguments of the first part
MaxParts == 2       \* most parts in one response

(***************************************************************************)
(* Data of the program                                                     *)
(***************************************************************************)
mock_data == << <<1, 10>>, <<2, 15>>, <<3, 12>>, <<4, 18>>, <<5, 22>>, <<6, 20>>, <<7, 25>> >>

DeclaredTool == "generate_plot_base64"

ErrorText == "Could not generate graph due to tool execution failure."

PNG_SIGNATURE == <<137, 80, 78, 71, 13, 10, 26, 10>>

(* Python values None and str *)
NoneValue == [kind |-> "None"]
StrValue(chars) == [kind |-> "str", chars |-> chars]

(***************************************************************************)
(* The inputs: what the model service may answer                           *)
(***************************************************************************)
Keys == {"x", "y"}
CoordKinds == {"num", "str"}
Points == UNION {[K -> CoordKinds] : K \in SUBSET Keys}
DataPoint == [x |-> "num", y |-> "num"]

SeqsUpTo(S, n) == UNION {[1..k -> S] : k \in 0..n}

DataLists == SeqsUpTo(Points, MaxPoints)
NoArgs == [has_data |-> FALSE, data |-> <<>>]
Args == {NoArgs} \cup {[has_data |-> TRUE, data |-> d] : d \in DataLists}
ToolNames == {DeclaredTool, "other_tool"}
TextPart == [kind |-> "text", name |-> "", args |-> NoArgs]
CallPart(n, a) == [kind |-> "call", name |-> n, args |-> a]
FirstParts == {TextPart} \cup {CallPart(n, a) : n \in ToolNames, a \in Args}
(* Parts after the first are never read by the program; they are drawn     *)
(* from a text part and calls of either tool with a renderable data list.  *)
SampleArgs == [has_data |-> TRUE, data |-> <<DataPoint, DataPoint>>]
LaterParts == {TextPart} \cup {CallPart(n, SampleArgs) : n \in ToolNames}
PartLists ==
    {<<>>} \cup {<<f>> \o r : f \in FirstParts, r \in SeqsUpTo(LaterParts, MaxParts - 1)}
Responses ==
    {[candidates |-> <<>>]} \cup {[candidates |-> <<[parts |-> ps]>>] : ps \in PartLists}
NoResponse == [candidates |-> <<>>]

(***************************************************************************)
(* Pure helpers                                                            *)
(***************************************************************************)
RECURSIVE Sum(_)
Sum(s) == IF s = <<>> THEN 0 ELSE Head(s) + Sum(Tail(s))

RECURSIVE Min(_)
Min(s) == IF Len(s) = 1 THEN s[1]
          ELSE LET m == Min(Tail(s)) IN IF s[1] < m THEN s[1] ELSE m

RECURSIVE Max(_)
Max(s) == IF Len(s) = 1 THEN s[1]
          ELSE LET m == Max(Tail(s)) IN IF s[1] > m THEN s[1] ELSE m

(* f"{avg_y:.2f}": the mean in hundredths, rounded to the nearest *)
Avg2(ys) == (200 * Sum(ys) + Len(ys)) \div (2 * Len(ys))

(* base64.b64encode: 3 bytes -> 4 symbols (0..63), 64 is the padding '=' *)
RECURSIVE b64encode(_)
b64encode(bytes) ==
    IF bytes = <<>> THEN <<>>
    ELSE LET n == Len(bytes)
             b1 == bytes[1]
             b2 == IF n >= 2 THEN bytes[2] ELSE 0
             b3 == IF n >= 3 THEN bytes[3] ELSE 0
             c1 == b1 \div 4
             c2 == (b1 % 4) * 16 + (b2 \div 16)
             c3 == IF n >= 2 THEN (b2 % 16) * 4 + (b3 \div 64) ELSE 64
             c4 == IF n >= 3 THEN b3 % 64 ELSE 64
         IN <<c1, c2, c3, c4>> \o (IF n > 3 THEN b64encode(SubSeq(bytes, 4, n)) ELSE <<>>)

(* plt.savefig(buffer, format='png'): the PNG signature followed by the    *)
(* raster, abstracted to one byte per artist drawn on the axes.            *)
ArtistCode(a) == IF a = "scatter" THEN 1 ELSE IF a = "trend" THEN 2 ELSE 3
savefig(f) == PNG_SIGNATURE \o [i \in 1..Len(f.artists) |-> ArtistCode(f.artists[i])]

(***************************************************************************)
(* Code-level helpers                                                      *)
(***************************************************************************)
(* response.candidates[0].content.parts[0]: defined when both lists are    *)
(* non-empty, IndexError otherwise                                         *)
HasFirstPart(r) == r.candidates # <<>> /\ r.candidates[1].parts # <<>>
(* variant: the last part is taken instead of the first *)
SelectedPartLast(parts) == parts[Len(parts)]
SelectedPart(parts) == parts[1]

(* Part.function_call: the call of a function-call part; a text part       *)
(* yields the empty FunctionCall (name "", no arguments)                   *)
FunctionCallOf(part) == [name |-> part.name, args |-> part.args]
NoCall == [name |-> "", args |-> NoArgs]

(* variant: any named call is routed to the plotting tool *)
MatchesAnyCall(fc) == fc.name # ""

(* if function_call.name == 'generate_plot_base64' *)
MatchesDeclared(fc) == fc.name = DeclaredTool

(* d['x'] / d['y'] raise KeyError *)
MissingKey(data) == \E i \in 1..Len(data) : ~("x" \in DOMAIN data[i] /\ "y" \in DOMAIN data[i])

(* a coordinate list holds a value that is not a number *)
NonNumeric(vals) == \E i \in 1..Len(vals) : vals[i] # "num"

(* a coordinate list holds numbers and strings *)
Mixed(vals) == \E i, j \in 1..Len(vals) : vals[i] # vals[j]

(* variant: the trend needs three points *)
TrendWantedOffByOne(xs) == Len(xs) > 2

(* if len(x_values) > 1 *)
TrendWanted(xs) == Len(xs) > 1

(* variant: a placeholder image is returned for malformed input *)
MalformedResultPartial == StrValue(<<0>>)

(* return None after the KeyError *)
MalformedResult == NoneValue

(* if not image_data_base64: None and the empty string are falsy *)
Falsy(v) == v.kind = "None" \/ v.chars = <<>>

(* variant: the call is dispatched again after the tool returns *)
ReturnSiteRedispatch == "dispatch"

(* the statement the tool call returns to: the test of image_data_base64   *)
ReturnSite == "assemble"

(* variants: the fallback carries an empty visualization / another text *)
ErrorReportWithViz ==
    [status |-> "error", text |-> ErrorText,
     visualization |-> [mime_type |-> "image/png", encoding |-> "base64", data |-> <<>>]]
ErrorReportOtherText == [status |-> "error", text |-> "Tool execution failed."]

ErrorReport == [status |-> "error", text |-> ErrorText]

SuccessReport(rows, image) ==
    LET ys == [i \in 1..Len(rows) |-> rows[i].y]
    IN [status |-> "success",
        text |-> [template |-> "analysis", min |-> Min(ys), max |-> Max(ys), avg |-> Avg2(ys)],
        visualization |-> [mime_type |-> "image/png", encoding |-> "base64", data |-> image.chars]]

NoFigure == [state |-> "none", artists |-> <<>>]
NoBuffer == [state |-> "none", bytes |-> <<>>]
NoReport == [status |-> "none"]
NoPage == [agent_status |-> "none"]

(***************************************************************************)
(* State                                                                   *)
(***************************************************************************)
VARIABLES
    pc,                 \* position in generate_report_data / dashboard
    table,              \* rows of the metrics table
    mock_query_result,  \* the points returned by the query
    sent,               \* messages sent to the model
    response,           \* the model's response
    function_call,      \* the parsed tool-invocation intent
    toolCalls,          \* executions of generate_plot_base64
    tpc,                \* position in generate_plot_base64
    data,               \* argument of generate_plot_base64
    x_values, y_values,
    fig,                \* the matplotlib figure
    buffer,             \* the io.BytesIO buffer
    image_data_base64,
    final_output,       \* the Report
    exc,                \* the exception that left generate_report_data
    page                \* what dashboard hands to the template

vars == <<pc, table, mock_query_result, sent, response, function_call, toolCalls, tpc,
          data, x_values, y_values, fig, buffer, image_data_base64, final_output, exc, page>>

toolVars == <<tpc, data, x_values, y_values, fig, buffer>>

Init ==
    /\ pc = "start"
    /\ table = <<>>
    /\ mock_query_result = <<>>
    /\ sent = 0
    /\ response = NoResponse
    /\ function_call = NoCall
    /\ toolCalls = 0
    /\ tpc = "idle"
    /\ data = <<>>
    /\ x_values = <<>>
    /\ y_values = <<>>
    /\ fig = NoFigure
    /\ buffer = NoBuffer
    /\ image_data_base64 = NoneValue
    /\ final_output = NoReport
    /\ exc = "None"
    /\ page = NoPage

(***************************************************************************)
(* generate_report_data                                                    *)
(***************************************************************************)
(* Steps 1-2: Database() populates the table; the tool is declared and the *)
(* chat session is opened.                                                 *)
Setup ==
    /\ pc = "start"
    /\ table' = mock_data
    /\ pc' = "query"
    /\ UNCHANGED <<mock_query_result, sent, response, function_call, toolCalls, toolVars,
                   image_data_base64, final_output, exc, page>>

(* Steps 3-4: db.query, the rows turned into points, db.close *)
Query ==
    /\ pc = "query"
    /\ \E n \in 0..Len(table) :
          mock_query_result' = [i \in 1..n |-> [x |-> table[i][1], y |-> table[i][2]]]
    /\ pc' = "send"
    /\ UNCHANGED <<table, sent, response, function_call, toolCalls, toolVars,
                   image_data_base64, final_output, exc, page>>

(* Step 5: chat.send_message; it raises or returns a response *)
SendMessage ==
    /\ pc = "send"
    /\ sent' = sent + 1
    /\ \/ /\ exc' = "ModelUnavailable"
          /\ pc' = "raised"
          /\ UNCHANGED response
       \/ /\ response' \in Responses
          /\ pc' = "parse"
          /\ UNCHANGED exc
    /\ UNCHANGED <<table, mock_query_result, function_call, toolCalls, toolVars,
                   image_data_base64, final_output, page>>

(* function_call = response.candidates[0].content.parts[0].function_call *)
ParseIntent ==
    /\ pc = "parse"
    /\ IF HasFirstPart(response)
       THEN /\ function_call' = FunctionCallOf(SelectedPart(response.candidates[1].parts))
            /\ pc' = "dispatch"
            /\ UNCHANGED exc
       ELSE /\ exc' = "IndexError"
            /\ pc' = "raised"
            /\ UNCHANGED function_call
    /\ UNCHANGED <<table, mock_query_result, sent, response, toolCalls, toolVars,
                   image_data_base64, final_output, page>>

(* the if/else on function_call.name; function_call.args['data'] is        *)
(* evaluated before the tool is entered                                    *)
Dispatch ==
    /\ pc = "dispatch"
    /\ IF MatchesDeclared(function_call)
       THEN IF function_call.args.has_data
            THEN /\ data' = function_call.args.data
                 /\ toolCalls' = toolCalls + 1
                 /\ tpc' = "parse"
                 /\ pc' = "in_tool"
                 /\ UNCHANGED <<image_data_base64, exc>>
            ELSE /\ exc' = "KeyError"
                 /\ pc' = "raised"
                 /\ UNCHANGED <<data, toolCalls, tpc, image_data_base64>>
       ELSE /\ image_data_base64' = NoneValue
            /\ pc' = "assemble"
            /\ UNCHANGED <<data, toolCalls, tpc, exc>>
    /\ UNCHANGED <<table, mock_query_result, sent, response, function_call,
                   x_values, y_values, fig, buffer, final_output, page>>

(***************************************************************************)
(* generate_plot_base64                                                    *)
(***************************************************************************)
(* 1. the two list comprehensions inside try/except KeyError *)
ToolParse ==
    /\ pc = "in_tool" /\ tpc = "parse"
    /\ IF MissingKey(data)
       THEN /\ image_data_base64' = MalformedResult
            /\ tpc' = "returned"
            /\ pc' = ReturnSite
            /\ UNCHANGED <<x_values, y_values>>
       ELSE /\ x_values' = [i \in 1..Len(data) |-> data[i].x]
            /\ y_values' = [i \in 1..Len(data) |-> data[i].y]
            /\ tpc' = "subplots"
            /\ UNCHANGED <<pc, image_data_base64>>
    /\ UNCHANGED <<table, mock_query_result, sent, response, function_call, toolCalls,
                   data, fig, buffer, final_output, exc, page>>

(* 2. plt.subplots registers a new figure with pyplot; ax.scatter draws    *)
(* the points: numbers as numbers, strings as categories; a coordinate     *)
(* list that mixes the two cannot be converted and scatter raises.         *)
ToolSubplots ==
    /\ pc = "in_tool" /\ tpc = "subplots"
    /\ IF Mixed(x_values) \/ Mixed(y_values)
       THEN /\ fig' = [state |-> "open", artists |-> <<>>]
            /\ tpc' = "raised"
            /\ exc' = "ValueError"
            /\ pc' = "raised"
       ELSE /\ fig' = [state |-> "open", artists |-> <<"scatter">>]
            /\ tpc' = "trend"
            /\ UNCHANGED <<pc, exc>>
    /\ UNCHANGED <<table, mock_query_result, sent, response, function_call, toolCalls,
                   data, x_values, y_values, buffer, image_data_base64, final_output, page>>

(* the trend line: np.polyfit raises on values that are not numbers *)
ToolTrend ==
    /\ pc = "in_tool" /\ tpc = "trend"
    /\ IF TrendWanted(x_values)
       THEN IF NonNumeric(x_values) \/ NonNumeric(y_values)
            THEN /\ tpc' = "raised"
                 /\ exc' = "TypeError"
                 /\ pc' = "raised"
                 /\ UNCHANGED fig
            ELSE /\ fig' = [fig EXCEPT !.artists = Append(@, "trend")]
                 /\ tpc' = "save"
                 /\ UNCHANGED <<pc, exc>>
       ELSE /\ tpc' = "save"
            /\ UNCHANGED <<fig, pc, exc>>
    /\ UNCHANGED <<table, mock_query_result, sent, response, function_call, toolCalls,
                   data, x_values, y_values, buffer, image_data_base64, final_output, page>>

(* titles, grid, legend, tight_layout; 3. buffer = io.BytesIO(),           *)
(* plt.savefig(buffer), plt.close(fig)                                     *)
ToolSave ==
    /\ pc = "in_tool" /\ tpc = "save"
    /\ LET drawn == [fig EXCEPT !.artists = Append(@, "legend")]
       IN /\ buffer' = [state |-> "open", bytes |-> savefig(drawn)]
          /\ fig' = [drawn EXCEPT !.state = "closed"]
    /\ tpc' = "encode"
    /\ UNCHANGED <<pc, table, mock_query_result, sent, response, function_call, toolCalls,
                   data, x_values, y_values, image_data_base64, final_output, exc, page>>

(* 4. buffer.seek(0), b64encode, return; the buffer dies with the frame *)
ToolEncode ==
    /\ pc = "in_tool" /\ tpc = "encode"
    /\ image_data_base64' = StrValue(b64encode(buffer.bytes))
    /\ buffer' = [buffer EXCEPT !.state = "released"]
    /\ tpc' = "returned"
    /\ pc' = ReturnSite
    /\ UNCHANGED <<table, mock_query_result, sent, response, function_call, toolCalls,
                   data, x_values, y_values, fig, final_output, exc, page>>

(***************************************************************************)
(* The fallback / Step 6 of generate_report_data, and the return           *)
(***************************************************************************)
Assemble ==
    /\ pc = "assemble"
    /\ IF Falsy(image_data_base64)
       THEN /\ final_output' = ErrorReport
            /\ pc' = "done"
            /\ UNCHANGED exc
       ELSE IF mock_query_result = <<>>
            THEN /\ exc' = "ZeroDivisionError"
                 /\ pc' = "raised"
                 /\ UNCHANGED final_output
            ELSE /\ final_output' = SuccessReport(mock_query_result, image_data_base64)
                 /\ pc' = "done"
                 /\ UNCHANGED exc
    /\ UNCHANGED <<table, mock_query_result, sent, response, function_call, toolCalls,
                   toolVars, image_data_base64, page>>

(***************************************************************************)
(* flask_app.dashboard, after generate_report_data has returned            *)
(***************************************************************************)
Dashboard ==
    /\ pc = "done"
    /\ LET viz_set == "visualization" \in DOMAIN final_output
           image_src ==
               IF viz_set /\ final_output.visualization.encoding = "base64"
                          /\ final_output.visualization.mime_type # ""
               THEN StrValue(<<"data:", final_output.visualization.mime_type, ";base64,",
                               final_output.visualization.data>>)
               ELSE NoneValue
       IN page' = [agent_status |-> final_output.status,
                   agent_text |-> final_output.text,
                   image_src |-> image_src]
    /\ pc' = "rendered"
    /\ UNCHANGED <<table, mock_query_result, sent, response, function_call, toolCalls,
                   toolVars, image_data_base64, final_output, exc>>

Next ==
    \/ Setup
    \/ Query
    \/ SendMessage
    \/ ParseIntent
    \/ Dispatch
    \/ ToolParse
    \/ ToolSubplots
    \/ ToolTrend
    \/ ToolSave
    \/ ToolEncode
    \/ Assemble
    \/ Dashboard

Spec == Init /\ [][Next]_vars

TypeOK ==
    /\ pc \in {"start", "query", "send", "parse", "dispatch", "in_tool", "assemble",
               "done", "rendered", "raised"}
    /\ tpc \in {"idle", "parse", "subplots", "trend", "save", "encode", "returned", "raised"}
    /\ sent \in 0..1
    /\ toolCalls \in 0..1

(***************************************************************************)
(* Properties                                                              *)
(***************************************************************************)
Returned == pc \in {"done", "rendered"}
Received ==
    \/ pc \in {"parse", "dispatch", "in_tool", "assemble", "done", "rendered"}
    \/ pc = "raised" /\ exc # "ModelUnavailable"
FirstPart == response.candidates[1].parts[1]
AllParts == response.candidates[1].parts
VizSet == "visualization" \in DOMAIN final_output
HasTrend(f) == \E i \in 1..Len(f.artists) : f.artists[i] = "trend"
NumCalls(parts) == Cardinality({i \in 1..Len(parts) : parts[i].kind = "call"})
IsDeclaredCall(part) == part.kind = "call" /\ part.name = DeclaredTool
Numeric(d) == \A i \in 1..Len(d) : d[i] = DataPoint

(* C1: every Report returned by generate_report_data has the visualization *)
(* field set if and only if its status is success.                         *)
C1_VisualizationIffSuccess ==
    Returned => (VizSet <=> final_output.status = "success")

C1_Witness ==
    /\ pc = "done"
    /\ final_output.status = "success"
    /\ VizSet
    /\ final_output.visualization.data # <<>>

(* C2: every failure of the model call (send_message raising, a response   *)
(* with no candidates or no parts) ends in a returned error Report, never  *)
(* in an exception leaving generate_report_data.                           *)
C2_ModelFailureReturnsReport ==
    (exc = "ModelUnavailable" \/ (Received /\ ~HasFirstPart(response))) => pc # "raised"

(* C3: an intent naming a tool other than generate_plot_base64 never       *)
(* reaches the plotting tool, never raises, and the Report returned for it *)
(* has status error.                                                       *)
UnknownToolIntent ==
    /\ Received
    /\ HasFirstPart(response)
    /\ FirstPart.kind = "call"
    /\ FirstPart.name # DeclaredTool

C3_UnknownToolIsError ==
    UnknownToolIntent =>
        /\ toolCalls = 0
        /\ tpc = "idle"
        /\ pc \in {"parse", "dispatch", "assemble", "done", "rendered"}
        /\ Returned => (final_output.status = "error" /\ ~VizSet)

C3_Witness ==
    /\ UnknownToolIntent
    /\ FirstPart.args.has_data
    /\ pc = "done"
    /\ final_output.status = "error"

(* C4: a response of plain text only never reaches the plotting tool and   *)
(* the Report returned for it is the error Report with the text "Could not *)
(* generate graph due to tool execution failure."                          *)
PlainText ==
    /\ Received
    /\ HasFirstPart(response)
    /\ \A i \in 1..Len(AllParts) : AllParts[i].kind = "text"

C4_PlainTextIsErrorText ==
    PlainText =>
        /\ toolCalls = 0
        /\ tpc = "idle"
        /\ pc \in {"parse", "dispatch", "assemble", "done", "rendered"}
        /\ Returned => /\ final_output.status = "error"
                       /\ final_output.text = ErrorText
                       /\ ~VizSet

C4_Witness ==
    /\ PlainText
    /\ pc = "done"
    /\ final_output.status = "error"
    /\ final_output.text = ErrorText

C6_NotOneCallIsError ==
    (Returned /\ HasFirstPart(response) /\ NumCalls(AllParts) # 1)
        => final_output.status = "error"

(* C6, amended: only the first part of the response decides.  If it is not *)
(* a call of generate_plot_base64 the tool is not run and the Report is an *)
(* error, whatever follows; if it is, the tool runs once, on that call's   *)
(* data, later calls are ignored, and the Report returned is a success     *)
(* exactly when every point of that data carries both coordinates.         *)
C6_FirstPartDecides ==
    (Returned /\ HasFirstPart(response)) =>
        IF IsDeclaredCall(FirstPart)
        THEN /\ toolCalls = 1
             /\ data = FirstPart.args.data
             /\ final_output.status = "success" <=> ~MissingKey(FirstPart.args.data)
        ELSE /\ toolCalls = 0
             /\ final_output.status = "error"

C6_Witness ==
    /\ pc = "done"
    /\ HasFirstPart(response)
    /\ IsDeclaredCall(FirstPart)
    /\ NumCalls(AllParts) > 1
    /\ final_output.status = "success"

(* C7: a plot that generate_plot_base64 has drawn carries the trend line   *)
(* if and only if the input has at least 2 points; on fewer than 2 numeric *)
(* points the tool does not fail and returns a non-empty encoded image.    *)
C7_TrendIffTwoPoints ==
    /\ fig.state = "closed" => (HasTrend(fig) <=> Len(data) >= 2)
    /\ (tpc # "idle" /\ Len(data) < 2 /\ Numeric(data)) =>
          /\ tpc # "raised"
          /\ tpc = "returned" => /\ image_data_base64.kind = "str"
                                 /\ image_data_base64.chars # <<>>
                                 /\ fig.state = "closed"

C7_Witness ==
    /\ tpc = "returned"
    /\ Len(data) >= 2
    /\ HasTrend(fig)
    /\ image_data_base64.kind = "str"
    /\ image_data_base64.chars # <<>>

(* C8: data with a point that lacks 'x' or 'y' makes generate_plot_base64  *)
(* return None before any figure or buffer exists, and                     *)
(* generate_report_data answers with an error Report without a             *)
(* visualization; no exception is raised.                                  *)
MalformedInput == tpc # "idle" /\ MissingKey(data)

C8_MalformedInputIsError ==
    MalformedInput =>
        /\ tpc \in {"parse", "returned"}
        /\ fig.state = "none"
        /\ buffer.state = "none"
        /\ pc \in {"in_tool", "assemble", "done", "rendered"}
        /\ tpc = "returned" => image_data_base64.kind = "None"
        /\ Returned => (final_output.status = "error" /\ ~VizSet)

C8_Witness ==
    /\ MalformedInput
    /\ pc = "done"
    /\ final_output.status = "error"

(* C9: when a call of generate_plot_base64 has exited, by return or by an  *)
(* exception, neither its figure nor its buffer is still open.             *)
C9_ResourcesReleased ==
    tpc \in {"returned", "raised"} => (fig.state # "open" /\ buffer.state # "open")

(* C10: at most one message is sent and exactly one once the model has     *)
(* been called; the tool runs at most once, and only after the response    *)
(* has been received and its first part parsed into function_call.         *)
C10_Sequential ==
    /\ sent <= 1
    /\ toolCalls <= 1
    /\ pc \notin {"start", "query", "send"} => sent = 1
    /\ (toolCalls > 0 \/ tpc # "idle") =>
          /\ sent = 1
          /\ toolCalls = 1
          /\ HasFirstPart(response)
          /\ function_call = FunctionCallOf(FirstPart)
          /\ pc \notin {"start", "query", "send", "parse", "dispatch"}

C10_Witness ==
    /\ pc = "done"
    /\ sent = 1
    /\ toolCalls = 1
    /\ tpc = "returned"

====
